---- MODULE Spec2Model ----
(***************************************************************************)
(* Coordination engine of oh_my_light: the per-relationship coordinators   *)
(* (LIGHT_SYNC, SWITCH_BIND, EVENT_BIND), the entity classifier, the       *)
(* conflict checker and the coordinator manager, as state machines over    *)
(* the host's entity registry, subscriptions and config entries.           *)
(***************************************************************************)
EXTENDS Integers, Sequences, FiniteSets, TLC

\* ------------------------------------------------------------------------
\* Bounds of the model
\* ------------------------------------------------------------------------
\* The clock runs from 1 to MaxTime seconds.
MaxTime == 5
\* At most MaxSubs subscriptions are live at a time.
MaxSubs == 3
\* At most MaxExternal external changes of entities are made.
MaxExternal == 2

\* ------------------------------------------------------------------------
\* Program constants
\* ------------------------------------------------------------------------
STATE_ON == "on"
STATE_OFF == "off"
STATE_UNAVAILABLE == "unavailable"
\* hass.states.get(..) of an unknown entity, and a missing old_state/new_state
NoState == "None"
\* an event entity's state is the time stamp of its last firing
STATE_FIRED == "fired"

FUNC_NAME_LIGHT_SYNC == "light_sync"
FUNC_NAME_LIGHT_SWITCH_BIND == "light_switch_bind"
FUNC_NAME_LIGHT_EVENT_BIND == "light_event_bind"
\* a func_name the manager has no coordinator type for
FUNC_NAME_UNKNOWN == "unknown_func"

\* datetime.timedelta(seconds=3)
QuiescenceSeconds == 3

\* ConfigEntryState values the coordinator deals with
ENTRY_NOT_LOADED == "NOT_LOADED"
ENTRY_SETUP_ERROR == "SETUP_ERROR"

REASON_IN_OTHER_ENTRIES == "light_entity_ids_in_other_entries"
NoReason == "None"

\* ------------------------------------------------------------------------
\* The host's entities
\* ------------------------------------------------------------------------
Lights == {"light.l1", "light.l2", "light.l3"}
LightGroups == {"light.g1"}
Switches == {"switch.s1", "switch.s2"}
Events == {"event.e1"}
Entities == Lights \cup LightGroups \cup Switches \cup Events

\* entity_id.split(".")[0]
DomainOf(entity_id) ==
    IF entity_id \in Lights \cup LightGroups THEN "light"
    ELSE IF entity_id \in Switches THEN "switch"
    ELSE "event"

\* relationship names (config entry titles), in the order of hass.config_entries
Names == {"A", "B"}
NameOrder == <<"A", "B">>

\* Attributes of a state: a dict as a set of <<key, value>> pairs
AttrKeys == {"brightness", "color_temp_kelvin", "rgb_color"}
AttrValues == {"null", "v"}
AttrMaps ==
    UNION {{{<<k, f[k]>> : k \in S} : f \in [S -> AttrValues]} : S \in SUBSET AttrKeys}

\* dict helpers (a dict is a set of <<key, value>> pairs with distinct keys)
Keys(d) == {p[1] : p \in d}
Values(d) == {p[2] : p \in d}
UnionAll(sets) == UNION sets

Range(seq) == {seq[i] : i \in 1 .. Len(seq)}

\* a set as a sequence, in some fixed order (the iteration order of a Python set)
RECURSIVE SetToSeq(_)
SetToSeq(S) ==
    IF S = {} THEN <<>>
    ELSE LET x == CHOOSE y \in S : TRUE
         IN <<x>> \o SetToSeq(S \ {x})

VARIABLES
    now,           \* the host's clock, in seconds
    hostState,     \* hass.states: entity id -> state value, NoState if unknown
    hostMembers,   \* a light group's "entity_id" attribute
    subs,          \* the host's live state-change subscriptions
    entries,       \* hass.config_entries: title -> entry
    coordinators,  \* OhMyLightCoordinatorManager.coordinators: is the title a key
    objs,          \* title -> the coordinator object last constructed for the entry
    cmds,          \* the service calls of the most recent operation, in order
    lastCall,      \* the most recent operation and how it returned
    call,          \* the arguments of a direct _async_set_light_entity_state call
    suspended,     \* the handlers suspended inside a membership refresh
    queue,         \* the state-change notifications in flight, oldest first
    external       \* the external changes of entities made so far, in order

vars == <<now, hostState, hostMembers, subs, entries, coordinators, objs, cmds,
          lastCall, call, suspended, queue, external>>
\* ------------------------------------------------------------------------
\* Data
\* ------------------------------------------------------------------------
\* config_entry.data: func_name and func_data (the id lists, as sequences)
EntryData(func_name, sync_ids, light_ids, switch_ids, event_ids, wireless) ==
    [func_name |-> func_name,
     light_sync_entity_ids |-> sync_ids,
     light_entity_ids |-> light_ids,
     switch_entity_ids |-> switch_ids,
     event_entity_ids |-> event_ids,
     wireless |-> wireless]

NoData == EntryData(FUNC_NAME_UNKNOWN, <<>>, <<>>, <<>>, <<>>, FALSE)

NoPlaceholders == [existing_light_entity_ids |-> {}, existing_config_entry_id |-> NoReason]

\* a config entry of the host; "present": it is in hass.config_entries
NewEntry(present, data) ==
    [present |-> present,
     data |-> data,
     state |-> ENTRY_NOT_LOADED,
     reason |-> NoReason,
     placeholders |-> NoPlaceholders]

\* BaseCoordinator.__init__; alive: the entry has its "coordinator" attribute;
\* fanned_out_since records when a LIGHT_SYNC fan-out set was last filled from
\* empty,
\* last_source records the entity of the most recently propagated
\* notification (history, not read by the code)
NewCoordinator ==
    [alive |-> TRUE,
     unsub_callbacks |-> <<>>,
     fanned_out_entity_ids |-> {},
     last_update_timestamp |-> 0,
     listened_entity_ids |-> {},
     lights_of_group |-> {},
     lights_in_group |-> {},
     last_source |-> NoState,
     fanned_out_since |-> 0]

\* no coordinator was constructed for the entry yet
DeadObj == [NewCoordinator EXCEPT !.alive = FALSE]

\* the store the operations work on
Store == [objs |-> objs, subs |-> subs, entries |-> entries,
          coordinators |-> coordinators, raised |-> FALSE]

\* ------------------------------------------------------------------------
\* Entity classifier (utils.py)
\* ------------------------------------------------------------------------
is_light_group_entity(entity_id) ==
    /\ DomainOf(entity_id) = "light"
    /\ hostState[entity_id] # NoState
    /\ entity_id \in LightGroups

async_list_light_in_light_group(light_group_entity_ids) ==
    UNION {hostMembers[g] : g \in {x \in light_group_entity_ids :
                                      x \in LightGroups /\ hostState[x] # NoState}}

\* variant: an id the host does not know is classified as a normal light
async_parse_light_keep_absent(light_entity_ids) ==
    [normal |-> {e \in light_entity_ids : ~is_light_group_entity(e)},
     of_group |-> {<<g, async_list_light_in_light_group({g})>> :
                    g \in {e \in light_entity_ids :
                             hostState[e] # NoState /\ is_light_group_entity(e)}}]

\* (normal lights, dict group -> lights of the group)
async_parse_light(light_entity_ids) ==
    [normal |-> {e \in light_entity_ids :
                    hostState[e] # NoState /\ ~is_light_group_entity(e)},
     of_group |-> {<<g, async_list_light_in_light_group({g})>> :
                    g \in {e \in light_entity_ids :
                             hostState[e] # NoState /\ is_light_group_entity(e)}}]

\* ------------------------------------------------------------------------
\* Conflict checker (utils.py)
\* ------------------------------------------------------------------------
async_list_light_sync_entry(st, func_name) ==
    SelectSeq(NameOrder, LAMBDA n : /\ st.entries[n].present
                                    /\ st.entries[n].data.func_name = func_name)

\* the entries whose coordinator's _listened_entity_ids overlap the set
ConflictingEntries(st, entry_name, func_name, light_entity_ids_set) ==
    SelectSeq(async_list_light_sync_entry(st, func_name),
              LAMBDA n : /\ n # entry_name
                         /\ st.objs[n].alive
                         /\ light_entity_ids_set \cap st.objs[n].listened_entity_ids # {})

async_whether_light_listen_by_other(st, entry_name, func_name, light_entity_ids_set) ==
    LET found == ConflictingEntries(st, entry_name, func_name, light_entity_ids_set)
    IN  IF found = <<>>
        THEN [existing |-> {}, config_entry |-> NoReason]
        ELSE [existing |-> light_entity_ids_set \cap st.objs[found[1]].listened_entity_ids,
              config_entry |-> found[1]]
\* ------------------------------------------------------------------------
\* Coordinator life cycle (coordinator.py, BaseCoordinator)
\* ------------------------------------------------------------------------
DataOf(st, c) == st.entries[c].data

ListenResult(entity_ids, satisfied, unsatisfied_reason, placeholders) ==
    [raised |-> FALSE,
     entity_ids |-> entity_ids,
     satisfied |-> satisfied,
     unsatisfied_reason |-> unsatisfied_reason,
     unsatisfied_reason_placeholders |-> placeholders]

\* ListenResult(.., errors=..): the dataclass has no such field, the call raises
ListenResultRaises == [ListenResult({}, FALSE, NoReason, NoPlaceholders) EXCEPT !.raised = TRUE]

\* LightSyncCoordinator.async_list_entities_to_listen: the result, and the
\* group membership the coordinator holds afterwards
LightSync_async_list_entities_to_listen(st, c) ==
    LET light_sync_entity_ids == DataOf(st, c).light_sync_entity_ids
        parsed == async_parse_light(Range(light_sync_entity_ids))
        normal_light_entity_ids == parsed.normal
        light_of_group_entity_ids == parsed.of_group
        other == async_whether_light_listen_by_other(
                     st, c, DataOf(st, c).func_name,
                     normal_light_entity_ids \cup UNION Values(light_of_group_entity_ids))
        keep == [lights_of_group |-> st.objs[c].lights_of_group,
                 lights_in_group |-> st.objs[c].lights_in_group]
    IN  IF light_sync_entity_ids = <<>>
        THEN [result |-> ListenResultRaises, groups |-> keep]
        ELSE IF other.existing # {}
        THEN [result |-> ListenResult({}, FALSE, REASON_IN_OTHER_ENTRIES,
                            [existing_light_entity_ids |-> other.existing,
                             existing_config_entry_id |-> other.config_entry]),
              groups |-> keep]
        ELSE [result |-> ListenResult(
                            normal_light_entity_ids
                              \cup Keys(light_of_group_entity_ids)
                              \cup UNION Values(light_of_group_entity_ids),
                            TRUE, NoReason, NoPlaceholders),
              groups |-> [lights_of_group |-> light_of_group_entity_ids,
                          lights_in_group |-> UNION Values(light_of_group_entity_ids)]]

LightSwitchBind_async_list_entities_to_listen(st, c) ==
    [result |-> ListenResult(Range(DataOf(st, c).light_entity_ids
                                     \o DataOf(st, c).switch_entity_ids),
                             TRUE, NoReason, NoPlaceholders),
     groups |-> [lights_of_group |-> st.objs[c].lights_of_group,
                 lights_in_group |-> st.objs[c].lights_in_group]]

LightEventBind_async_list_entities_to_listen(st, c) ==
    [result |-> ListenResult(Range(DataOf(st, c).event_entity_ids),
                             TRUE, NoReason, NoPlaceholders),
     groups |-> [lights_of_group |-> st.objs[c].lights_of_group,
                 lights_in_group |-> st.objs[c].lights_in_group]]

\* the coordinator class's own override
async_list_entities_to_listen(st, c) ==
    IF DataOf(st, c).func_name = FUNC_NAME_LIGHT_SYNC
    THEN LightSync_async_list_entities_to_listen(st, c)
    ELSE IF DataOf(st, c).func_name = FUNC_NAME_LIGHT_SWITCH_BIND
    THEN LightSwitchBind_async_list_entities_to_listen(st, c)
    ELSE LightEventBind_async_list_entities_to_listen(st, c)

\* variant: the list of callbacks is cleared without calling them
async_unload_clear_only(st, c) ==
    [st EXCEPT !.objs[c].unsub_callbacks = <<>>]

\* BaseCoordinator.async_unload: call every unsubscribe callback, clear the list
async_unload(st, c) ==
    [st EXCEPT !.subs = {h \in st.subs :
                            ~(h.owner = c /\ ~h.stale
                                /\ h.token \in Range(st.objs[c].unsub_callbacks))},
               !.objs[c].unsub_callbacks = <<>>]

\* async_track_state_change_event: a new live subscription and its token
\* (a token is told apart from the owner's other live ones by a number)
TokensOf(st, c) == {h.token : h \in {x \in st.subs : x.owner = c}}

FreeToken(st, c) == CHOOSE k \in 1 .. (Cardinality(st.subs) + 1) :
                       /\ k \notin TokensOf(st, c)
                       /\ \A j \in 1 .. (k - 1) : j \in TokensOf(st, c)

async_track_state_change_event(st, c, entity_ids) ==
    [st EXCEPT !.subs = st.subs \cup {[token |-> FreeToken(st, c), owner |-> c,
                                        ids |-> entity_ids, stale |-> FALSE]},
               !.objs[c].unsub_callbacks = Append(@, FreeToken(st, c))]

\* variant: an unsatisfied result unloads and returns without telling the entry
async_setup_silent_failure(st, c) ==
    LET listed == async_list_entities_to_listen(st, c)
        listener_result == listed.result
        st1 == [st EXCEPT !.objs[c].lights_of_group = listed.groups.lights_of_group,
                          !.objs[c].lights_in_group = listed.groups.lights_in_group]
    IN  IF listener_result.raised
        THEN [st EXCEPT !.raised = TRUE]
        ELSE IF ~listener_result.satisfied
        THEN async_unload(st1, c)
        ELSE [async_track_state_change_event(st1, c, listener_result.entity_ids) EXCEPT
                 !.objs[c].listened_entity_ids = listener_result.entity_ids]

\* BaseCoordinator.async_setup
async_setup(st, c) ==
    LET listed == async_list_entities_to_listen(st, c)
        listener_result == listed.result
        st1 == [st EXCEPT !.objs[c].lights_of_group = listed.groups.lights_of_group,
                          !.objs[c].lights_in_group = listed.groups.lights_in_group]
    IN  IF listener_result.raised
        THEN [st EXCEPT !.raised = TRUE]
        ELSE IF ~listener_result.satisfied
        THEN [async_unload(st1, c) EXCEPT
                 !.entries[c].state = ENTRY_SETUP_ERROR,
                 !.entries[c].reason = listener_result.unsatisfied_reason,
                 !.entries[c].placeholders =
                     listener_result.unsatisfied_reason_placeholders]
        ELSE [async_track_state_change_event(st1, c, listener_result.entity_ids) EXCEPT
                 !.objs[c].listened_entity_ids = listener_result.entity_ids]

\* ------------------------------------------------------------------------
\* Coordinator manager (coordinator.py, OhMyLightCoordinatorManager)
\* ------------------------------------------------------------------------
coordinator_types ==
    {FUNC_NAME_LIGHT_SYNC, FUNC_NAME_LIGHT_SWITCH_BIND, FUNC_NAME_LIGHT_EVENT_BIND}

async_unload_coordinator(st, entry_titile) ==
    IF st.coordinators[entry_titile]
    THEN [async_unload(st, entry_titile) EXCEPT !.coordinators[entry_titile] = FALSE]
    ELSE st

\* the construction of the coordinator and its registration under the title;
\* a subscription the replaced object still held lives on with that object
ConstructCoordinator(st, entry_titile) ==
    [st EXCEPT !.objs[entry_titile] = NewCoordinator,
               !.coordinators[entry_titile] = TRUE,
               !.subs = {IF h.owner = entry_titile THEN [h EXCEPT !.stale = TRUE] ELSE h :
                           h \in st.subs}]

\* variant: the coordinator registered under the title is not unloaded first
async_setup_coordinator_no_unload(st, entry_titile, func_name) ==
    IF func_name \notin coordinator_types
    THEN st
    ELSE async_setup(ConstructCoordinator(st, entry_titile), entry_titile)

\* OhMyLightCoordinatorManager.async_setup_coordinator
async_setup_coordinator(st, entry_titile, func_name) ==
    IF func_name \notin coordinator_types
    THEN st
    ELSE LET st1 == IF st.coordinators[entry_titile]
                    THEN async_unload_coordinator(st, entry_titile)
                    ELSE st
         IN  async_setup(ConstructCoordinator(st1, entry_titile), entry_titile)

\* ------------------------------------------------------------------------
\* Service calls (coordinator.py, BaseCoordinator)
\* ------------------------------------------------------------------------
\* variant: every light command switches on
LIGHT_SERVICES_always_on(state) == "turn_on"

LIGHT_SERVICES(state) == IF state = STATE_ON THEN "turn_on" ELSE "turn_off"
SWITCH_SERVICES(state) == IF state = STATE_ON THEN "turn_on" ELSE "turn_off"

\* one hass.services.async_call; ok: the call did not raise
ServiceCall(domain, service, entity_id, attributes, ok) ==
    [domain |-> domain, service |-> service, entity_id |-> entity_id,
     attributes |-> attributes, ok |-> ok]

\* the attributes a light command carries
\* variant: the null check of the filter left out
FilterAttributes_keep_null(desired_state, desired_attributes) ==
    LET after_off == IF desired_state = STATE_OFF THEN {} ELSE desired_attributes
    IN  {p \in after_off : p[1] \in {"brightness", "color_temp_kelvin"}}

FilterAttributes(desired_state, desired_attributes) ==
    LET after_off == IF desired_state = STATE_OFF THEN {} ELSE desired_attributes
    IN  IF after_off # {}
        THEN {p \in after_off : /\ p[1] \in {"brightness", "color_temp_kelvin"}
                                 /\ p[2] # "null"}
        ELSE after_off

\* BaseCoordinator._async_set_light_entity_state: the calls it makes
async_set_light_entity_state(entity_id, desired_state, desired_attributes, failing) ==
    IF DomainOf(entity_id) # "light"
    THEN <<>>
    ELSE IF desired_state \notin {STATE_ON, STATE_OFF}
    THEN <<>>
    ELSE <<ServiceCall("light", LIGHT_SERVICES(desired_state), entity_id,
                       FilterAttributes(desired_state, desired_attributes),
                       entity_id \notin failing)>>

\* BaseCoordinator._async_set_switch_entity_state: the calls it makes
async_set_switch_entity_state(entity_id, desired_state, failing) ==
    IF DomainOf(entity_id) # "switch"
    THEN <<>>
    ELSE IF desired_state \notin {STATE_ON, STATE_OFF}
    THEN <<>>
    ELSE <<ServiceCall("switch", SWITCH_SERVICES(desired_state), entity_id, {},
                       entity_id \notin failing)>>

\* ------------------------------------------------------------------------
\* Notification handlers (coordinator.py, async_handle_event)
\* ------------------------------------------------------------------------
\* a state-change notification of the host
Notification(entity_id, old_state, new_state, attributes, time_fired) ==
    [entity_id |-> entity_id, old_state |-> old_state, new_state |-> new_state,
     attributes |-> attributes, time_fired |-> time_fired]

\* what a handler did: the coordinator afterwards, its service calls, how it
\* ended, and whether it asked for unload + setup
Handled(o, calls, outcome) == [obj |-> o, cmds |-> calls, outcome |-> outcome]

\* variant: the fan-out set is emptied for the first notification only
QuiescenceElapsed_first_only(o, event) ==
    o.last_update_timestamp = 0

\* variant: the fan-out set is emptied a second later
QuiescenceElapsed_one_more_second(o, event) ==
    \/ o.last_update_timestamp = 0
    \/ event.time_fired - o.last_update_timestamp > QuiescenceSeconds + 1

\* "清空被扇出的实体id": the quiescence check
QuiescenceElapsed(o, event) ==
    \/ o.last_update_timestamp = 0
    \/ event.time_fired - o.last_update_timestamp > QuiescenceSeconds

\* variant: the fan-out set is emptied at every notification
ClearFannedOut_always(o, event) ==
    [o EXCEPT !.fanned_out_entity_ids = {}]

ClearFannedOut(o, event) ==
    IF QuiescenceElapsed(o, event)
    THEN [o EXCEPT !.fanned_out_entity_ids = {}]
    ELSE o

\* since when the entities of the fan-out set have been in it (history)
FannedOutSince(o, event) ==
    IF o.fanned_out_entity_ids = {} THEN event.time_fired ELSE o.fanned_out_since

\* variant: the first failed call ends the loop
RECURSIVE ConcatAll_stop_at_failure(_)
ConcatAll_stop_at_failure(seqs) ==
    IF seqs = <<>> THEN <<>>
    ELSE IF \E i \in 1 .. Len(Head(seqs)) : ~Head(seqs)[i].ok
    THEN Head(seqs)
    ELSE Head(seqs) \o ConcatAll_stop_at_failure(Tail(seqs))

RECURSIVE ConcatAll(_)
ConcatAll(seqs) ==
    IF seqs = <<>> THEN <<>> ELSE Head(seqs) \o ConcatAll(Tail(seqs))

\* the entities LIGHT_SYNC puts in the fan-out set
LightSyncFanOut(o, data, entity_id) ==
    (Range(data.light_sync_entity_ids)
       \cup Keys(o.lights_of_group)
       \cup o.lights_in_group) \ {entity_id}

\* variant: the source is not taken out of the entities to update
LightSyncNeedUpdate_with_source(data, entity_id) ==
    Range(data.light_sync_entity_ids)

\* the entities LIGHT_SYNC updates
LightSyncNeedUpdate(data, entity_id) ==
    Range(data.light_sync_entity_ids) \ {entity_id}

\* variant: the quiescence check comes before the test of the new value
LightSync_async_handle_event_clear_first(o, data, event, failing) ==
    IF event.old_state = NoState THEN Handled(o, <<>>, "no_old_state")
    ELSE IF event.new_state = NoState THEN Handled(o, <<>>, "no_new_state")
    ELSE IF /\ event.entity_id \in Keys(o.lights_of_group)
            /\ event.old_state = STATE_UNAVAILABLE
    THEN Handled(o, <<>>, "refresh")
    ELSE LET o1 == ClearFannedOut(o, event)
         IN  IF event.new_state \notin {STATE_ON, STATE_OFF}
             THEN Handled(o1, <<>>, "ignored_state")
             ELSE IF event.entity_id \in o1.fanned_out_entity_ids
             THEN Handled(o1, <<>>, "suppressed")
             ELSE LET need_update_entity_ids ==
                          SetToSeq(LightSyncNeedUpdate(data, event.entity_id))
                      o2 == [o1 EXCEPT
                               !.fanned_out_entity_ids =
                                   @ \cup LightSyncFanOut(o1, data, event.entity_id),
                               !.last_update_timestamp = event.time_fired,
                               !.last_source = event.entity_id,
                               !.fanned_out_since = FannedOutSince(o1, event)]
                  IN  Handled(o2,
                              ConcatAll([i \in 1 .. Len(need_update_entity_ids) |->
                                  async_set_light_entity_state(
                                      need_update_entity_ids[i], event.new_state,
                                      event.attributes, failing)]),
                              "processed")

\* LightSyncCoordinator.async_handle_event
LightSync_async_handle_event(o, data, event, failing) ==
    IF event.old_state = NoState THEN Handled(o, <<>>, "no_old_state")
    ELSE IF event.new_state = NoState THEN Handled(o, <<>>, "no_new_state")
    ELSE IF /\ event.entity_id \in Keys(o.lights_of_group)
            /\ event.old_state = STATE_UNAVAILABLE
    THEN Handled(o, <<>>, "refresh")
    ELSE IF event.new_state \notin {STATE_ON, STATE_OFF}
    THEN Handled(o, <<>>, "ignored_state")
    ELSE LET o1 == ClearFannedOut(o, event)
         IN  IF event.entity_id \in o1.fanned_out_entity_ids
             THEN Handled(o1, <<>>, "suppressed")
             ELSE LET need_update_entity_ids ==
                          SetToSeq(LightSyncNeedUpdate(data, event.entity_id))
                      o2 == [o1 EXCEPT
                               !.fanned_out_entity_ids =
                                   @ \cup LightSyncFanOut(o1, data, event.entity_id),
                               !.last_update_timestamp = event.time_fired,
                               !.last_source = event.entity_id,
                               !.fanned_out_since = FannedOutSince(o1, event)]
                  IN  Handled(o2,
                              ConcatAll([i \in 1 .. Len(need_update_entity_ids) |->
                                  async_set_light_entity_state(
                                      need_update_entity_ids[i], event.new_state,
                                      event.attributes, failing)]),
                              "processed")

\* variant: the source is not taken out of the entities to update
SwitchBindNeedUpdate_with_source(data, entity_id) ==
    Range(data.light_entity_ids \o data.switch_entity_ids)

\* the entities SWITCH_BIND updates
SwitchBindNeedUpdate(data, entity_id) ==
    Range(data.light_entity_ids \o data.switch_entity_ids) \ {entity_id}

SwitchBindSet(data, entity_id, state, failing) ==
    IF entity_id \in Range(data.light_entity_ids)
    THEN async_set_light_entity_state(entity_id, state, {}, failing)
    ELSE IF entity_id \in Range(data.switch_entity_ids)
    THEN async_set_switch_entity_state(entity_id, state, failing)
    ELSE <<>>

\* LightSwitchBindCoordinator.async_handle_event
LightSwitchBind_async_handle_event(o, data, event, failing) ==
    IF event.old_state = NoState THEN Handled(o, <<>>, "no_old_state")
    ELSE IF event.new_state = NoState THEN Handled(o, <<>>, "no_new_state")
    ELSE LET o1 == ClearFannedOut(o, event)
         IN  IF event.entity_id \notin Range(data.light_entity_ids \o data.switch_entity_ids)
             THEN Handled(o1, <<>>, "unknown_entity")
             ELSE LET need_update_entity_ids ==
                          SetToSeq(SwitchBindNeedUpdate(data, event.entity_id))
                      o2 == [o1 EXCEPT
                               !.fanned_out_entity_ids = @ \cup Range(data.light_entity_ids),
                               !.last_update_timestamp = event.time_fired,
                               !.last_source = event.entity_id]
                  IN  Handled(o2,
                              ConcatAll([i \in 1 .. Len(need_update_entity_ids) |->
                                  SwitchBindSet(data, need_update_entity_ids[i],
                                                event.new_state, failing)]),
                              "processed")

\* variant: the toggle switches on whatever the live state
ToggleOf_always_on(light_state) == STATE_ON

\* the toggle of one bound light, from its live state
ToggleOf(light_state) == IF light_state = STATE_ON THEN STATE_OFF ELSE STATE_ON

EventBindToggle(light_entity_id, failing) ==
    IF hostState[light_entity_id] = NoState
    THEN <<>>
    ELSE async_set_light_entity_state(light_entity_id,
                                      ToggleOf(hostState[light_entity_id]), {}, failing)

\* the logger.debug after the loop reads light_entity_id and light_state.state:
\* unbound with no bound light, None when the last light is unknown to the host
EventBindLogRaises(data) ==
    \/ data.light_entity_ids = <<>>
    \/ hostState[data.light_entity_ids[Len(data.light_entity_ids)]] = NoState

\* LightEventBindCoordinator.async_handle_event
LightEventBind_async_handle_event(o, data, event, failing) ==
    IF event.old_state = NoState THEN Handled(o, <<>>, "no_old_state")
    ELSE IF event.new_state = NoState THEN Handled(o, <<>>, "no_new_state")
    ELSE LET o1 == ClearFannedOut(o, event)
         IN  IF event.entity_id \notin Range(data.event_entity_ids)
             THEN Handled(o1, <<>>, "unknown_entity")
             ELSE LET o2 == [o1 EXCEPT
                               !.fanned_out_entity_ids = @ \cup Range(data.light_entity_ids)]
                      calls == ConcatAll([i \in 1 .. Len(data.light_entity_ids) |->
                                  EventBindToggle(data.light_entity_ids[i], failing)])
                  IN  IF EventBindLogRaises(data)
                      THEN Handled(o2, calls, "raised")
                      ELSE Handled([o2 EXCEPT
                                      !.last_update_timestamp = event.time_fired,
                                      !.last_source = event.entity_id],
                                   calls, "processed")

\* the coordinator class's own handler
async_handle_event(o, data, event, failing) ==
    IF data.func_name = FUNC_NAME_LIGHT_SYNC
    THEN LightSync_async_handle_event(o, data, event, failing)
    ELSE IF data.func_name = FUNC_NAME_LIGHT_SWITCH_BIND
    THEN LightSwitchBind_async_handle_event(o, data, event, failing)
    ELSE LightEventBind_async_handle_event(o, data, event, failing)

\* variant: a membership-change signal unloads without setting up again
handle_event_no_resetup(st, c, event, failing) ==
    LET handled == async_handle_event(st.objs[c], DataOf(st, c), event, failing)
        st1 == [st EXCEPT !.objs[c] = handled.obj]
    IN  [st |-> IF handled.outcome = "refresh"
                THEN async_unload(st1, c)
                ELSE [st1 EXCEPT !.raised = (handled.outcome = "raised")],
         cmds |-> handled.cmds,
         outcome |-> handled.outcome]

\* variant: the fan-out set is one set shared by all coordinators
handle_event_shared_fan_out(st, c, event, failing) ==
    LET handled == async_handle_event(st.objs[c], DataOf(st, c), event, failing)
        st1 == [st EXCEPT !.objs =
                   [n \in DOMAIN st.objs |->
                      IF n = c THEN handled.obj
                      ELSE [st.objs[n] EXCEPT !.fanned_out_entity_ids =
                                                  handled.obj.fanned_out_entity_ids]]]
    IN  [st |-> IF handled.outcome = "refresh"
                THEN async_setup(async_unload(st1, c), c)
                ELSE [st1 EXCEPT !.raised = (handled.outcome = "raised")],
         cmds |-> handled.cmds,
         outcome |-> handled.outcome]

\* variant: a membership-change signal sets up again without unloading first
handle_event_setup_only(st, c, event, failing) ==
    LET handled == async_handle_event(st.objs[c], DataOf(st, c), event, failing)
        st1 == [st EXCEPT !.objs[c] = handled.obj]
    IN  [st |-> IF handled.outcome = "refresh"
                THEN async_setup(st1, c)
                ELSE [st1 EXCEPT !.raised = (handled.outcome = "raised")],
         cmds |-> handled.cmds,
         outcome |-> handled.outcome]

\* handle_event, the callback async_setup registers: the handler, and the
\* unload + setup a membership-change signal asks for
handle_event(st, c, event, failing) ==
    LET handled == async_handle_event(st.objs[c], DataOf(st, c), event, failing)
        st1 == [st EXCEPT !.objs[c] = handled.obj]
    IN  [st |-> IF handled.outcome = "refresh"
                THEN async_setup(async_unload(st1, c), c)
                ELSE [st1 EXCEPT !.raised = (handled.outcome = "raised")],
         cmds |-> handled.cmds,
         outcome |-> handled.outcome]

\* ------------------------------------------------------------------------
\* Operations
\* ------------------------------------------------------------------------
\* how the quiescence check of a notification went (history)
GapOf(o, event) ==
    IF o.last_update_timestamp = 0 THEN "first"
    ELSE IF event.time_fired - o.last_update_timestamp > QuiescenceSeconds THEN "elapsed"
    ELSE "within"

Called(op, name, outcome, returned, entity_id, gap, replaced) ==
    [op |-> op, name |-> name, outcome |-> outcome, returned |-> returned,
     entity_id |-> entity_id, gap |-> gap, replaced |-> replaced]

NoCall == Called("none", "A", "none", "None", NoState, "none", FALSE)

Commit(st) ==
    /\ objs' = st.objs
    /\ subs' = st.subs
    /\ entries' = st.entries
    /\ coordinators' = st.coordinators

\* how a setup through the manager ended
SetupOutcome(st, entry_titile, func_name) ==
    IF func_name \notin coordinator_types THEN "unknown_kind"
    ELSE IF st.raised THEN "raised"
    ELSE IF st.objs[entry_titile].unsub_callbacks = <<>> THEN "setup_failed"
    ELSE "listening"

\* __init__.async_setup_entry: the host sets up the entry; func_name is the
\* entry's data["func_name"] at the call: its kind or, after an edit of the
\* entry, one the manager has no coordinator type for
SetupEntry(n, func_name) ==
    /\ entries[n].present
    /\ func_name \in {entries[n].data.func_name, FUNC_NAME_UNKNOWN}
    /\ LET st == async_setup_coordinator(Store, n, func_name)
       IN  /\ Commit(st)
           /\ lastCall' = Called("setup_entry", n, SetupOutcome(st, n, func_name),
                                 IF st.raised THEN "raised" ELSE "True",
                                 NoState, "none",
                                 func_name \in coordinator_types /\ coordinators[n])
    /\ cmds' = <<>>
    /\ suspended' = IF func_name \in coordinator_types
                    THEN {IF s.owner = n THEN [s EXCEPT !.replaced = TRUE] ELSE s :
                            s \in suspended}
                    ELSE suspended
    /\ UNCHANGED <<now, hostState, hostMembers, call, queue, external>>

\* __init__.async_unload_entry: the host unloads the entry
UnloadEntry(n) ==
    /\ entries[n].present
    /\ Commit(async_unload_coordinator(Store, n))
    /\ lastCall' = Called("unload_entry", n,
                          IF coordinators[n] THEN "unloaded" ELSE "not_registered",
                          "True", NoState, "none", FALSE)
    /\ cmds' = <<>>
    /\ UNCHANGED <<now, hostState, hostMembers, call, suspended, queue, external>>

\* the new values a notification of the entity may carry
NotifyValues(entity_id) ==
    IF DomainOf(entity_id) = "event"
    THEN {NoState, STATE_FIRED, STATE_UNAVAILABLE}
    ELSE {NoState, STATE_ON, STATE_OFF, STATE_UNAVAILABLE}

\* the old values: the handlers tell None, unavailable and any other apart
NotifyOldValues(entity_id) ==
    IF DomainOf(entity_id) = "event"
    THEN {NoState, STATE_FIRED, STATE_UNAVAILABLE}
    ELSE {NoState, STATE_ON, STATE_UNAVAILABLE}

\* the entities whose service call may fail
Failable == {"light.l1"}

\* the host delivers a state-change notification to a live subscription
Notify(h, entity_id, old_state, new_state, attributes, failing) ==
    /\ h \in subs
    /\ ~h.stale
    /\ entity_id \in h.ids
    /\ ~(old_state = NoState /\ new_state = NoState)
    /\ LET c == h.owner
           event == Notification(entity_id, old_state, new_state,
                                 attributes, now)
           done == handle_event(Store, c, event, failing)
       IN  /\ Commit(done.st)
           /\ cmds' = done.cmds
           /\ lastCall' = Called("notify", c, done.outcome,
                                 IF done.st.raised THEN "raised" ELSE "None",
                                 entity_id, GapOf(objs[c], event), FALSE)
    /\ UNCHANGED <<now, hostState, hostMembers, call, suspended, queue, external>>

\* a second passes
Tick ==
    /\ now < MaxTime
    /\ now' = now + 1
    /\ UNCHANGED <<hostState, hostMembers, subs, entries, coordinators, objs, cmds,
                   lastCall, call, suspended, queue, external>>

\* the state of an entity changes in the host (a device, a user, or a service
\* call taking effect); NoState: the entity leaves the registry
HostSetState(entity_id, state) ==
    /\ hostState[entity_id] # state
    /\ hostState' = [hostState EXCEPT ![entity_id] = state]
    /\ UNCHANGED <<now, hostMembers, subs, entries, coordinators, objs, cmds,
                   lastCall, call, suspended, queue, external>>

\* the host recomputes the members of a light group
HostRegroup(g, members) ==
    /\ hostMembers[g] # members
    /\ hostMembers' = [hostMembers EXCEPT ![g] = members]
    /\ UNCHANGED <<now, hostState, subs, entries, coordinators, objs, cmds,
                   lastCall, call, suspended, queue, external>>

\* the entries of the host
PresentEntries == {n \in Names : entries[n].present}

\* the lights whose live state a toggle reads
ReadLights ==
    UNION {Range(entries[n].data.light_entity_ids) :
             n \in {m \in PresentEntries :
                      entries[m].data.func_name = FUNC_NAME_LIGHT_EVENT_BIND}}

\* the entities the classifier looks up, and the groups among them
ClassifiedEntities ==
    UNION {Range(entries[n].data.light_sync_entity_ids) : n \in PresentEntries}

ClassifiedGroups == ClassifiedEntities \cap LightGroups

\* the member sets a group of the model may have
GroupMemberships == {{"light.l2"}, {"light.l2", "light.l3"}}

\* ------------------------------------------------------------------------
\* Specification: one relationship of any kind, with the clock
\* ------------------------------------------------------------------------
SyncData(ids) == EntryData(FUNC_NAME_LIGHT_SYNC, ids, <<>>, <<>>, <<>>, FALSE)
SwitchBindData(lights, switches, wireless) ==
    EntryData(FUNC_NAME_LIGHT_SWITCH_BIND, <<>>, lights, switches, <<>>, wireless)
EventBindData(events, lights) ==
    EntryData(FUNC_NAME_LIGHT_EVENT_BIND, <<>>, lights, <<>>, events, FALSE)

SpecDefinitions ==
    {SyncData(<<"light.l1", "light.g1">>),
     SwitchBindData(<<"light.l1">>, <<"switch.s1", "switch.s2">>, FALSE),
     SwitchBindData(<<"light.l1">>, <<"switch.s1">>, TRUE),
     EventBindData(<<"event.e1">>, <<"light.l1", "light.l2">>)}

InitHost ==
    /\ now = 1
    /\ hostState = [e \in Entities |-> IF DomainOf(e) = "event" THEN STATE_FIRED
                                        ELSE STATE_OFF]
    /\ hostMembers = [g \in LightGroups |-> {"light.l2"}]
    /\ subs = {}
    /\ coordinators = [n \in Names |-> FALSE]
    /\ objs = [n \in Names |-> DeadObj]
    /\ cmds = <<>>
    /\ lastCall = NoCall
    /\ suspended = {}
    /\ queue = <<>>
    /\ external = <<>>

\* no direct call of a state setter is under way
NoSetterCall ==
    [entity_id |-> "light.l1", desired_state |-> STATE_OFF,
     desired_attributes |-> {}, done |-> TRUE]

Init ==
    /\ InitHost
    /\ call = NoSetterCall
    /\ \E d \in SpecDefinitions :
          entries = [n \in Names |-> IF n = "A" THEN NewEntry(TRUE, d)
                                     ELSE NewEntry(FALSE, NoData)]

\* the attributes of a light that is on, and of any other state
AttributesOn == {<<"brightness", "v">>, <<"color_temp_kelvin", "null">>, <<"rgb_color", "v">>}

\* a notification whose service calls all succeed
NotifyStep(h, entity_id, old_state, new_state) ==
    Notify(h, entity_id, old_state, new_state,
           IF new_state = STATE_ON THEN AttributesOn ELSE {}, {})

NotifyAny ==
    \E h \in subs : \E entity_id \in h.ids :
      \E old_state \in NotifyOldValues(entity_id), new_state \in NotifyValues(entity_id) :
          NotifyStep(h, entity_id, old_state, new_state)

HostChangesRead ==
    \E e \in ReadLights, state \in {NoState, STATE_ON, STATE_OFF} :
        HostSetState(e, state)

HostRegroups ==
    \E g \in ClassifiedGroups, members \in GroupMemberships :
        HostRegroup(g, members)

SetupAny ==
    \E n \in Names, func_name \in coordinator_types \cup {FUNC_NAME_UNKNOWN} :
        SetupEntry(n, func_name)

Next ==
    \/ SetupAny
    \/ \E n \in Names : UnloadEntry(n)
    \/ NotifyAny
    \/ Tick
    \/ HostChangesRead
    \/ HostRegroups

Spec == Init /\ [][Next]_vars
\* ------------------------------------------------------------------------
\* Specification: two relationships and their life cycle, the clock stopped
\* ------------------------------------------------------------------------
ManagerScenarios ==
    {[A |-> SyncData(<<"light.l1", "light.g1">>), B |-> SyncData(<<"light.l1">>)],
     [A |-> SyncData(<<"light.l1", "light.g1">>), B |-> SyncData(<<"light.g1">>)],
     [A |-> SyncData(<<"light.l1", "light.g1">>), B |-> SyncData(<<"light.l3">>)],
     [A |-> SyncData(<<"light.l1", "light.g1">>), B |-> SyncData(<<>>)]}

ManagerGroupMemberships == {{}, {"light.l2"}, {"light.l2", "light.l3"}}

InitManager ==
    /\ InitHost
    /\ call = NoSetterCall
    /\ \E sc \in ManagerScenarios :
          entries = [n \in Names |-> NewEntry(TRUE, sc[n])]

HostChangesClassified ==
    \E e \in ClassifiedEntities, state \in {NoState, STATE_OFF} :
        HostSetState(e, state)

HostRegroupsAny ==
    \E g \in ClassifiedGroups, members \in ManagerGroupMemberships :
        HostRegroup(g, members)

\* a light group leaves "unavailable": the membership-change signal
NotifyGroupAvailable ==
    \E h \in subs : \E entity_id \in h.ids \cap LightGroups :
        Notify(h, entity_id, STATE_UNAVAILABLE, STATE_ON, AttributesOn, {})

NextManager ==
    \/ SetupAny
    \/ \E n \in Names : UnloadEntry(n)
    \/ NotifyGroupAvailable
    \/ HostChangesClassified
    \/ HostRegroupsAny

SpecManager == InitManager /\ [][NextManager]_vars
\* ------------------------------------------------------------------------
\* Properties
\* ------------------------------------------------------------------------
KindOf(n) == entries[n].data.func_name

\* the entities a LIGHT_SYNC coordinator holds as configured, as tracked
\* groups and as resolved group members
SyncEntitiesOf(n) ==
    Range(entries[n].data.light_sync_entity_ids)
      \cup Keys(objs[n].lights_of_group)
      \cup objs[n].lights_in_group

\* C1 (no self-echo): once a LIGHT_SYNC coordinator has propagated a
\* notification of an entity at time t, a notification that arrives at a time
\* <= t + 3 s from any other configured entity, tracked group or resolved
\* group member issues no command.
C1_NoSelfEcho ==
    [][\A h \in subs : \A entity_id \in h.ids :
         \A old_state \in NotifyOldValues(entity_id), new_state \in NotifyValues(entity_id) :
           ( /\ KindOf(h.owner) = FUNC_NAME_LIGHT_SYNC
             /\ objs[h.owner].last_update_timestamp # 0
             /\ now - objs[h.owner].last_update_timestamp <= QuiescenceSeconds
             /\ entity_id # objs[h.owner].last_source
             /\ entity_id \in SyncEntitiesOf(h.owner)
             /\ lastCall'.entity_id = entity_id
             /\ NotifyStep(h, entity_id, old_state, new_state) )
           => cmds' = <<>>]_vars
\* a coordinator whose suppression state is that of a fresh one
FreshlySetUp(o) ==
    [o EXCEPT !.fanned_out_entity_ids = {}, !.last_update_timestamp = 0,
              !.last_source = NoState, !.fanned_out_since = 0]

\* C2 (quiescence reset): for every kind, a notification that arrives more
\* than 3 s after the last one the relationship processed is never dropped by
\* the suppression check, and is handled (outcome, commands, and when it is
\* processed the coordinator afterwards) exactly as a coordinator with an
\* empty fan-out set and no previous notification handles it.
C2_QuiescenceReset ==
    [][\A h \in subs : \A entity_id \in h.ids :
         \A old_state \in NotifyOldValues(entity_id), new_state \in NotifyValues(entity_id) :
           ( /\ objs[h.owner].last_update_timestamp # 0
             /\ now - objs[h.owner].last_update_timestamp > QuiescenceSeconds
             /\ lastCall'.entity_id = entity_id
             /\ NotifyStep(h, entity_id, old_state, new_state) )
           => LET fresh == async_handle_event(
                               FreshlySetUp(objs[h.owner]), entries[h.owner].data,
                               Notification(entity_id, old_state, new_state,
                                            IF new_state = STATE_ON THEN AttributesOn ELSE {},
                                            now), {})
              IN  /\ lastCall'.outcome # "suppressed"
                  /\ lastCall'.outcome = fresh.outcome
                  /\ cmds' = fresh.cmds
                  /\ fresh.outcome = "processed" => objs'[h.owner] = fresh.obj]_vars

\* a LIGHT_SYNC notification was propagated after the window had elapsed
C2_Witness ==
    /\ lastCall.op = "notify"
    /\ lastCall.gap = "elapsed"
    /\ lastCall.outcome = "processed"
    /\ KindOf(lastCall.name) = FUNC_NAME_LIGHT_SYNC
    /\ lastCall.entity_id \in objs[lastCall.name].lights_in_group
    /\ cmds # <<>>

\* the live subscriptions of a coordinator
LiveSubscriptions(st, c) == {h \in st.subs : h.owner = c}

\* C3 (idempotent teardown): in whatever state a coordinator is, teardown
\* raises nothing and leaves it without a live subscription, and a second
\* teardown changes nothing more; teardown through the manager of a name
\* that is not registered changes nothing, and after any teardown through
\* the manager the name is unregistered and holds no subscription.
C3_IdempotentTeardown ==
    /\ \A c \in Names : objs[c].alive =>
          LET once == async_unload(Store, c)
          IN  /\ ~once.raised
              /\ LiveSubscriptions(once, c) = {}
              /\ async_unload(once, c) = once
    /\ \A n \in Names : ~coordinators[n] =>
          async_unload_coordinator(Store, n) = Store
    /\ \A n \in Names : coordinators[n] =>
          LET once == async_unload_coordinator(Store, n)
          IN  /\ ~once.raised
              /\ ~once.coordinators[n]
              /\ LiveSubscriptions(once, n) = {}
              /\ async_unload_coordinator(once, n) = once
    /\ lastCall.op = "unload_entry" =>
          /\ lastCall.returned = "True"
          /\ ~coordinators[lastCall.name]
          /\ LiveSubscriptions(Store, lastCall.name) = {}

\* a relationship that was set up is torn down again after its teardown,
\* while the other relationship is listening
C3_Witness ==
    /\ lastCall.op = "unload_entry"
    /\ lastCall.outcome = "not_registered"
    /\ objs[lastCall.name].alive
    /\ \E h \in subs : h.owner # lastCall.name

\* ------------------------------------------------------------------------
\* Specification: one direct call of the light state setter
\* ------------------------------------------------------------------------
SetterCalls ==
    [entity_id : {"light.l1", "switch.s1"},
     desired_state : {STATE_ON, STATE_OFF, STATE_UNAVAILABLE},
     desired_attributes : AttrMaps,
     done : {FALSE}]

InitAttr ==
    /\ InitHost
    /\ entries = [n \in Names |-> NewEntry(FALSE, NoData)]
    /\ call \in SetterCalls

\* BaseCoordinator._async_set_light_entity_state is called
SetLightState ==
    /\ ~call.done
    /\ \E failing \in SUBSET Failable :
          cmds' = async_set_light_entity_state(call.entity_id, call.desired_state,
                                               call.desired_attributes, failing)
    /\ call' = [call EXCEPT !.done = TRUE]
    /\ UNCHANGED <<now, hostState, hostMembers, subs, entries, coordinators, objs,
                   lastCall, suspended, queue, external>>

NextAttr == SetLightState

SpecAttr == InitAttr /\ [][NextAttr]_vars

\* C5 (attribute filtering): a light state command for off carries no
\* attributes; one for on carries exactly the entries of the desired
\* attributes whose key is brightness or color_temp_kelvin and whose value
\* is not null, so no other key reaches the host.
C5_AttributeFiltering ==
    ( /\ call.done
      /\ DomainOf(call.entity_id) = "light"
      /\ call.desired_state \in {STATE_ON, STATE_OFF} )
    => /\ Len(cmds) = 1
       /\ cmds[1].entity_id = call.entity_id
       /\ cmds[1].service = (IF call.desired_state = STATE_ON THEN "turn_on" ELSE "turn_off")
       /\ Keys(cmds[1].attributes) \subseteq {"brightness", "color_temp_kelvin"}
       /\ call.desired_state = STATE_OFF => cmds[1].attributes = {}
       /\ call.desired_state = STATE_ON =>
             \A k \in AttrKeys, v \in AttrValues :
                <<k, v>> \in cmds[1].attributes
                  <=> /\ <<k, v>> \in call.desired_attributes
                      /\ k \in {"brightness", "color_temp_kelvin"}
                      /\ v # "null"

\* an on command was built from attributes with a null value and a foreign key
C5_Witness ==
    /\ call.done
    /\ call.entity_id = "light.l1"
    /\ call.desired_state = STATE_ON
    /\ <<"brightness", "null">> \in call.desired_attributes
    /\ <<"color_temp_kelvin", "v">> \in call.desired_attributes
    /\ <<"rgb_color", "v">> \in call.desired_attributes
    /\ Len(cmds) = 1
\* ------------------------------------------------------------------------
\* Properties of the life cycle and of the other kinds
\* ------------------------------------------------------------------------
\* the commands of the last operation that address the entity
CommandsTo(calls, entity_id) ==
    {i \in 1 .. Len(calls) : calls[i].entity_id = entity_id}

\* C4 (conflict detection): when two LIGHT_SYNC relationships both name the
\* same light id L (a plain light or a light group, known to the host), and
\* one of them is listening and watches L, the setup of the other ends in
\* SETUP_FAILED with the reason naming the first and a non-empty overlap, and
\* creates no subscription.
C4_ConflictDetection ==
    [][\A n \in Names, m \in Names, L \in Lights \cup LightGroups :
         ( /\ n # m
           /\ KindOf(n) = FUNC_NAME_LIGHT_SYNC
           /\ KindOf(m) = FUNC_NAME_LIGHT_SYNC
           /\ L \in Range(entries[n].data.light_sync_entity_ids)
           /\ L \in Range(entries[m].data.light_sync_entity_ids)
           /\ hostState[L] # NoState
           /\ coordinators[m]
           /\ \E h \in subs : h.owner = m /\ ~h.stale /\ L \in h.ids
           /\ lastCall'.op = "setup_entry"
           /\ SetupEntry(n, FUNC_NAME_LIGHT_SYNC) )
         => /\ lastCall'.outcome = "setup_failed"
            /\ entries'[n].state = ENTRY_SETUP_ERROR
            /\ entries'[n].reason = REASON_IN_OTHER_ENTRIES
            /\ entries'[n].placeholders.existing_config_entry_id = m
            /\ entries'[n].placeholders.existing_light_entity_ids # {}
            /\ ~\E h \in subs' : h.owner = n]_vars

\* the commands an EVENT_BIND notification must issue: one per bound light
\* the host knows, the opposite of its live state, and none for another
ToggleCommands(calls, lights) ==
    /\ \A L \in lights :
          IF hostState[L] = NoState
          THEN CommandsTo(calls, L) = {}
          ELSE /\ Cardinality(CommandsTo(calls, L)) = 1
               /\ \A i \in CommandsTo(calls, L) :
                     /\ calls[i].domain = "light"
                     /\ calls[i].service =
                          (IF hostState[L] = STATE_ON THEN "turn_off" ELSE "turn_on")
                     /\ calls[i].attributes = {}
    /\ \A i \in 1 .. Len(calls) : calls[i].entity_id \in lights

\* C6 as stated (toggle binding): each notification from a configured event
\* entity of an EVENT_BIND relationship (one that carries an old and a new
\* state) issues exactly one command per bound light, off if the light's live
\* host state is on, otherwise on.
C6_ToggleEachNotification ==
    [][\A h \in subs : \A entity_id \in h.ids :
         \A old_state \in NotifyOldValues(entity_id), new_state \in NotifyValues(entity_id) :
           ( /\ KindOf(h.owner) = FUNC_NAME_LIGHT_EVENT_BIND
             /\ entity_id \in Range(entries[h.owner].data.event_entity_ids)
             /\ old_state # NoState
             /\ new_state # NoState
             /\ lastCall'.entity_id = entity_id
             /\ NotifyStep(h, entity_id, old_state, new_state) )
           => \A L \in Range(entries[h.owner].data.light_entity_ids) :
                /\ Cardinality(CommandsTo(cmds', L)) = 1
                /\ \A i \in CommandsTo(cmds', L) :
                      cmds'[i].service =
                          (IF hostState[L] = STATE_ON THEN "turn_off" ELSE "turn_on")]_vars

\* C6 amended (toggle binding): each notification from a configured event
\* entity (one that carries an old and a new state) issues exactly one command
\* per bound light the host knows, off if the light's live host state is on,
\* otherwise on, with no attributes; a bound light that is absent from the
\* host gets no command, and no other entity gets one.
C6_ToggleBinding ==
    [][\A h \in subs : \A entity_id \in h.ids :
         \A old_state \in NotifyOldValues(entity_id), new_state \in NotifyValues(entity_id) :
           ( /\ KindOf(h.owner) = FUNC_NAME_LIGHT_EVENT_BIND
             /\ entity_id \in Range(entries[h.owner].data.event_entity_ids)
             /\ old_state # NoState
             /\ new_state # NoState
             /\ lastCall'.entity_id = entity_id
             /\ NotifyStep(h, entity_id, old_state, new_state) )
           => ToggleCommands(cmds', Range(entries[h.owner].data.light_entity_ids))]_vars

\* a firing more than 3 s after the previous one switched off a light that
\* was on and switched on one that was off
C6_Witness ==
    /\ lastCall.op = "notify"
    /\ KindOf(lastCall.name) = FUNC_NAME_LIGHT_EVENT_BIND
    /\ lastCall.gap = "elapsed"
    /\ lastCall.outcome = "processed"
    /\ Len(cmds) = 2
    /\ \E i \in 1 .. 2 : cmds[i].entity_id = "light.l1" /\ cmds[i].service = "turn_off"
    /\ \E i \in 1 .. 2 : cmds[i].entity_id = "light.l2" /\ cmds[i].service = "turn_on"

\* C7 (wireless switch binding): in a SWITCH_BIND relationship whose wireless
\* flag is set, a state-change notification of a bound light or of a bound
\* switch issues no command.
C7_WirelessSwitchBinding ==
    ( /\ lastCall.op = "notify"
      /\ KindOf(lastCall.name) = FUNC_NAME_LIGHT_SWITCH_BIND
      /\ entries[lastCall.name].data.wireless
      /\ DomainOf(lastCall.entity_id) \in {"light", "switch"} )
    => cmds = <<>>

\* C10 (unknown kind): a setup whose kind the manager has no coordinator type
\* for is not reported as ok by the host-facing setup, constructs no
\* coordinator and leaves the registry as it was.
C10_UnknownKind ==
    ( /\ lastCall.op = "setup_entry"
      /\ lastCall.outcome = "unknown_kind" )
    => lastCall.returned # "True"

\* the watched set and the membership a LIGHT_SYNC definition resolves to in
\* the host as it is
ResolvedNow(n) ==
    LET parsed == async_parse_light(Range(entries[n].data.light_sync_entity_ids))
    IN  [watched |-> parsed.normal \cup Keys(parsed.of_group) \cup UNION Values(parsed.of_group),
         lights_of_group |-> parsed.of_group,
         lights_in_group |-> UNION Values(parsed.of_group)]

\* C8 (group membership refresh): a notification from a tracked group whose
\* previous value is unavailable issues no command, and afterwards the
\* watched set and the group membership of the coordinator are the ones the
\* host resolves at that moment.
C8_GroupMembershipRefresh ==
    [][\A h \in subs : \A g \in h.ids \cap LightGroups :
         ( /\ KindOf(h.owner) = FUNC_NAME_LIGHT_SYNC
           /\ g \in Keys(objs[h.owner].lights_of_group)
           /\ lastCall'.entity_id = g
           /\ Notify(h, g, STATE_UNAVAILABLE, STATE_ON, AttributesOn, {}) )
         => /\ cmds' = <<>>
            /\ lastCall'.outcome = "refresh"
            /\ objs'[h.owner].listened_entity_ids = ResolvedNow(h.owner).watched
            /\ objs'[h.owner].lights_of_group = ResolvedNow(h.owner).lights_of_group
            /\ objs'[h.owner].lights_in_group = ResolvedNow(h.owner).lights_in_group]_vars

\* C9 (setup by replacement): when setup is called for a name that is
\* registered, afterwards the name is registered with a new coordinator (no
\* fan-out set, no previous notification), no subscription of the replaced
\* coordinator is live, and the subscriptions under the name are the ones the
\* new coordinator holds, at most one; in every state a name has at most one
\* coordinator and every subscription belongs to the registered one.
C9_SetupByReplacement ==
    [][\A n \in Names : \A func_name \in coordinator_types :
         ( /\ coordinators[n]
           /\ lastCall'.op = "setup_entry"
           /\ SetupEntry(n, func_name) )
         => /\ coordinators'[n]
            /\ objs'[n].alive
            /\ objs'[n].fanned_out_entity_ids = {}
            /\ objs'[n].last_update_timestamp = 0
            /\ \A h \in subs' :
                  /\ ~h.stale
                  /\ coordinators'[h.owner]
                  /\ h.token \in Range(objs'[h.owner].unsub_callbacks)
            /\ Cardinality({h \in subs' : h.owner = n}) <= 1
            /\ Cardinality({h \in subs' : h.owner = n}) = Len(objs'[n].unsub_callbacks)]_vars

\* a relationship that had propagated notifications was set up again after
\* the group had changed, and listens to the members of that moment
C9_Witness ==
    /\ lastCall.op = "setup_entry"
    /\ lastCall.replaced
    /\ lastCall.outcome = "listening"
    /\ now > 1
    /\ objs[lastCall.name].lights_in_group = {"light.l2", "light.l3"}
    /\ \E h \in subs : h.owner = lastCall.name /\ "light.l3" \in h.ids

\* ------------------------------------------------------------------------
\* Properties of failure handling
\* ------------------------------------------------------------------------
\* what the conflict checker answers for the definition of n in the host as
\* it is: the overlap and the relationship that listens to it
OverlapNow(n) ==
    LET parsed == async_parse_light(Range(entries[n].data.light_sync_entity_ids))
    IN  async_whether_light_listen_by_other(
            Store, n, FUNC_NAME_LIGHT_SYNC,
            parsed.normal \cup UNION Values(parsed.of_group))

\* C11 (setup failure on conflict): a LIGHT_SYNC setup during which the
\* conflict checker finds an overlap ends failed: the coordinator holds no
\* subscription, the entry is given the state SETUP_ERROR with the reason and
\* placeholders naming the overlapping ids and the other relationship, and
\* the coordinator is registered under its name; a registered name leaves the
\* registry only by its own teardown.
C11_SetupFailureOnConflict ==
    [][/\ \A n \in Names :
            ( /\ KindOf(n) = FUNC_NAME_LIGHT_SYNC
              /\ entries[n].data.light_sync_entity_ids # <<>>
              /\ OverlapNow(n).existing # {}
              /\ lastCall'.op = "setup_entry"
              /\ SetupEntry(n, FUNC_NAME_LIGHT_SYNC) )
            => /\ lastCall'.outcome = "setup_failed"
               /\ ~\E h \in subs' : h.owner = n
               /\ objs'[n].unsub_callbacks = <<>>
               /\ entries'[n].state = ENTRY_SETUP_ERROR
               /\ entries'[n].reason = REASON_IN_OTHER_ENTRIES
               /\ entries'[n].placeholders.existing_light_entity_ids = OverlapNow(n).existing
               /\ entries'[n].placeholders.existing_config_entry_id = OverlapNow(n).config_entry
               /\ OverlapNow(n).config_entry \in Names \ {n}
               /\ coordinators'[n]
       /\ \A n \in Names :
            (coordinators[n] /\ ~coordinators'[n])
            => (lastCall'.op = "unload_entry" /\ lastCall'.name = n)]_vars

\* a setup failed on a conflict and the failed coordinator is registered
C11_Witness ==
    /\ lastCall.op = "setup_entry"
    /\ lastCall.outcome = "setup_failed"
    /\ coordinators[lastCall.name]
    /\ entries[lastCall.name].state = ENTRY_SETUP_ERROR
    /\ entries[lastCall.name].placeholders.existing_config_entry_id \in Names \ {lastCall.name}
    /\ entries[lastCall.name].placeholders.existing_light_entity_ids # {}
    /\ ~\E h \in subs : h.owner = lastCall.name

\* C12 (setup failure on empty watch set): a setup whose resolved watch set is
\* empty (the configured list is empty, or every configured id is absent
\* from the host) ends failed, with a reason given to the entry and without
\* a subscription.
C12_SetupFailureOnEmptyWatchSet ==
    [][\A n \in Names :
         ( /\ KindOf(n) = FUNC_NAME_LIGHT_SYNC
           /\ ResolvedNow(n).watched = {}
           /\ lastCall'.op = "setup_entry"
           /\ SetupEntry(n, FUNC_NAME_LIGHT_SYNC) )
         => /\ lastCall'.outcome = "setup_failed"
            /\ lastCall'.returned # "raised"
            /\ entries'[n].state = ENTRY_SETUP_ERROR
            /\ entries'[n].reason # NoReason
            /\ ~\E h \in subs' : h.owner = n]_vars

\* ------------------------------------------------------------------------
\* Specification: one relationship of any kind, service calls that may fail
\* ------------------------------------------------------------------------
\* a notification during which the service calls to some entities raise
NotifyFailing ==
    \E h \in subs : \E entity_id \in h.ids :
      \E new_state \in {STATE_ON, STATE_OFF, STATE_FIRED}, failing \in SUBSET Failable :
          Notify(h, entity_id, STATE_ON, new_state,
                 IF new_state = STATE_ON THEN AttributesOn ELSE {}, failing)

NextPartial ==
    \/ SetupAny
    \/ \E n \in Names : UnloadEntry(n)
    \/ NotifyFailing
    \/ Tick

SpecPartial == Init /\ [][NextPartial]_vars

\* C13 (partial-failure semantics): when the service call to one target
\* raises while a notification is propagated, the handler issues the same
\* calls, in the same order and each once, as when no call raises (only the
\* raising ones are marked failed), ends the same way, and records the time of
\* the notification as the last update.
C13_PartialFailure ==
    [][\A h \in subs : \A entity_id \in h.ids :
         \A new_state \in {STATE_ON, STATE_OFF, STATE_FIRED} :
           LET attributes == IF new_state = STATE_ON THEN AttributesOn ELSE {}
               clean == async_handle_event(
                            objs[h.owner], entries[h.owner].data,
                            Notification(entity_id, STATE_ON, new_state, attributes, now),
                            {})
           IN  ( /\ lastCall'.entity_id = entity_id
                 /\ Notify(h, entity_id, STATE_ON, new_state, attributes, Failable) )
               => /\ lastCall'.outcome = clean.outcome
                  /\ lastCall'.returned = "None"
                  /\ Len(cmds') = Len(clean.cmds)
                  /\ \A i \in 1 .. Len(clean.cmds) :
                        cmds'[i] = [clean.cmds[i] EXCEPT
                                      !.ok = clean.cmds[i].entity_id \notin Failable]
                  /\ \A e \in Entities : Cardinality(CommandsTo(cmds', e)) <= 1
                  /\ clean.outcome = "processed" =>
                        /\ objs'[h.owner].last_update_timestamp = now
                        /\ objs'[h.owner] = clean.obj]_vars

\* a call failed and a later target of the same notification got its call
C13_Witness ==
    /\ lastCall.op = "notify"
    /\ lastCall.outcome = "processed"
    /\ objs[lastCall.name].last_update_timestamp = now
    /\ \E i \in 1 .. Len(cmds) : \E j \in 1 .. Len(cmds) :
          i < j /\ ~cmds[i].ok /\ cmds[j].ok

\* C14 (no escaping failure): every setup and every handler call returns
\* normally; no error escapes to the host.
C14_NoEscapingFailure ==
    lastCall.op \in {"setup_entry", "unload_entry", "notify"}
    => /\ lastCall.returned # "raised"
       /\ lastCall.outcome # "raised"

\* ------------------------------------------------------------------------
\* Properties of propagation
\* ------------------------------------------------------------------------
\* the entities the commands address
Addressed(calls) == {calls[i].entity_id : i \in 1 .. Len(calls)}

\* the members of the tracked groups the entity is a member of
SiblingsOf(o, entity_id) ==
    UNION {p[2] : p \in {q \in o.lights_of_group : entity_id \in q[2]}} \ {entity_id}

C16_SwitchBindOtherSide ==
    [][\A h \in subs : \A entity_id \in h.ids :
         \A old_state \in NotifyOldValues(entity_id), new_state \in {STATE_ON, STATE_OFF} :
           ( /\ KindOf(h.owner) = FUNC_NAME_LIGHT_SWITCH_BIND
             /\ ~entries[h.owner].data.wireless
             /\ old_state # NoState
             /\ lastCall'.entity_id = entity_id
             /\ NotifyStep(h, entity_id, old_state, new_state) )
           => LET lights == Range(entries[h.owner].data.light_entity_ids)
                  switches == Range(entries[h.owner].data.switch_entity_ids)
              IN  /\ entity_id \in switches => Addressed(cmds') = lights
                  /\ entity_id \in lights => Addressed(cmds') = switches]_vars

\* C16 amended (SWITCH_BIND targets, wireless not set): a notification of a
\* bound light or switch with the new value on or off issues one command with
\* that value to every other bound entity, light or switch, and none to the
\* source, and records the time; a notification of an entity that is not
\* bound issues no command and records no time.
C16_SwitchBindTargets ==
    [][/\ \A h \in subs : \A entity_id \in h.ids :
            \A old_state \in NotifyOldValues(entity_id), new_state \in {STATE_ON, STATE_OFF} :
              ( /\ KindOf(h.owner) = FUNC_NAME_LIGHT_SWITCH_BIND
                /\ ~entries[h.owner].data.wireless
                /\ old_state # NoState
                /\ lastCall'.entity_id = entity_id
                /\ NotifyStep(h, entity_id, old_state, new_state) )
              => LET lights == Range(entries[h.owner].data.light_entity_ids)
                     switches == Range(entries[h.owner].data.switch_entity_ids)
                 IN  /\ Addressed(cmds') = (lights \cup switches) \ {entity_id}
                     /\ \A e \in Addressed(cmds') : Cardinality(CommandsTo(cmds', e)) = 1
                     /\ \A i \in 1 .. Len(cmds') :
                           /\ cmds'[i].domain =
                                (IF cmds'[i].entity_id \in lights THEN "light" ELSE "switch")
                           /\ cmds'[i].service =
                                (IF new_state = STATE_ON THEN "turn_on" ELSE "turn_off")
                           /\ cmds'[i].attributes = {}
                     /\ objs'[h.owner].last_update_timestamp = now
       /\ \A n \in Names :
            ( /\ KindOf(n) = FUNC_NAME_LIGHT_SWITCH_BIND
              /\ objs[n].alive )
            => \A e \in Entities \ Range(entries[n].data.light_entity_ids
                                             \o entries[n].data.switch_entity_ids) :
                 LET other == async_handle_event(
                                  objs[n], entries[n].data,
                                  Notification(e, STATE_OFF, STATE_ON, AttributesOn, now), {})
                 IN  /\ other.cmds = <<>>
                     /\ other.outcome = "unknown_entity"
                     /\ other.obj.last_update_timestamp = objs[n].last_update_timestamp]_vars

\* a bound switch changed: the light and the other switch got a command
C16_Witness ==
    /\ lastCall.op = "notify"
    /\ lastCall.outcome = "processed"
    /\ KindOf(lastCall.name) = FUNC_NAME_LIGHT_SWITCH_BIND
    /\ ~entries[lastCall.name].data.wireless
    /\ lastCall.entity_id = "switch.s1"
    /\ Addressed(cmds) = {"light.l1", "switch.s2"}

\* C17 (suppress before command): for every kind, every entity a handler has
\* issued a command to is in the fan-out set of its coordinator (the set
\* only grows between the commands and the end of the handler), and for
\* LIGHT_SYNC the set also holds the watched set but for the source.
C17_SuppressBeforeCommand ==
    lastCall.op = "notify"
    => /\ Addressed(cmds) \subseteq objs[lastCall.name].fanned_out_entity_ids
       /\ ( /\ KindOf(lastCall.name) = FUNC_NAME_LIGHT_SYNC
             /\ lastCall.outcome = "processed" )
          => objs[lastCall.name].listened_entity_ids \ {lastCall.entity_id}
               \subseteq objs[lastCall.name].fanned_out_entity_ids

\* C18 (suppression check in SWITCH_BIND): a notification of a SWITCH_BIND
\* relationship whose entity is in the fan-out set after the quiescence check
\* issues no command, adds nothing to the set and leaves the time of the
\* last update as it was.
C18_SwitchBindSuppression ==
    [][\A h \in subs : \A entity_id \in h.ids :
         \A old_state \in NotifyOldValues(entity_id), new_state \in NotifyValues(entity_id) :
           ( /\ KindOf(h.owner) = FUNC_NAME_LIGHT_SWITCH_BIND
             /\ old_state # NoState
             /\ new_state # NoState
             /\ entity_id \in ClearFannedOut(
                                  objs[h.owner],
                                  Notification(entity_id, old_state, new_state, {}, now)
                                ).fanned_out_entity_ids
             /\ lastCall'.entity_id = entity_id
             /\ NotifyStep(h, entity_id, old_state, new_state) )
           => /\ cmds' = <<>>
              /\ objs'[h.owner].fanned_out_entity_ids = objs[h.owner].fanned_out_entity_ids
              /\ objs'[h.owner].last_update_timestamp =
                    objs[h.owner].last_update_timestamp]_vars

\* C19 (LIGHT_SYNC ignores other values): a LIGHT_SYNC notification whose new
\* value is neither on nor off, and that is not a membership-change signal,
\* issues no command and leaves the coordinator (fan-out set, time of the
\* last update, watched set, membership) and the subscriptions as they were,
\* whatever the time since the last processed notification.
C19_IgnoreOtherValues ==
    [][\A h \in subs : \A entity_id \in h.ids :
         \A old_state \in NotifyOldValues(entity_id),
            new_state \in NotifyValues(entity_id) \ {STATE_ON, STATE_OFF} :
           ( /\ KindOf(h.owner) = FUNC_NAME_LIGHT_SYNC
             /\ ~( /\ entity_id \in Keys(objs[h.owner].lights_of_group)
                   /\ old_state = STATE_UNAVAILABLE )
             /\ lastCall'.entity_id = entity_id
             /\ NotifyStep(h, entity_id, old_state, new_state) )
           => /\ cmds' = <<>>
              /\ objs' = objs
              /\ subs' = subs
              /\ entries' = entries
              /\ coordinators' = coordinators]_vars

\* a value other than on and off arrived after the window had elapsed, with
\* entities in the fan-out set, and was ignored
C19_Witness ==
    /\ lastCall.op = "notify"
    /\ lastCall.outcome = "ignored_state"
    /\ lastCall.gap = "elapsed"
    /\ KindOf(lastCall.name) = FUNC_NAME_LIGHT_SYNC
    /\ objs[lastCall.name].fanned_out_entity_ids # {}
    /\ cmds = <<>>

\* ------------------------------------------------------------------------
\* Specification: the classifier under a changing host registry; one
\* LIGHT_SYNC relationship whose set-up classifies its configured ids
\* ------------------------------------------------------------------------
ClassifyInputs ==
    {<<"light.l1", "light.g1">>,
     <<"light.g1", "light.l3">>,
     <<"light.l1", "light.l2", "light.l3">>,
     <<"light.g1">>}

InitClassify ==
    /\ InitHost
    /\ call = NoSetterCall
    /\ \E ids \in ClassifyInputs :
          entries = [n \in Names |-> IF n = "A" THEN NewEntry(TRUE, SyncData(ids))
                                     ELSE NewEntry(FALSE, NoData)]

NextClassify ==
    \/ SetupAny
    \/ \E n \in Names : UnloadEntry(n)
    \/ HostChangesClassified
    \/ HostRegroupsAny

SpecClassify == InitClassify /\ [][NextClassify]_vars

\* C20 (entity classification): for every collection of entity ids and every
\* host registry, an id absent from the host is in neither output of
\* async_parse_light, the normal ids and the group keys are disjoint and
\* together are the present input ids, and each group key maps (once) to
\* exactly the member ids the host reports for that group.
C20_EntityClassification ==
    \A ids \in SUBSET Entities :
      LET parsed == async_parse_light(ids)
          present == {e \in ids : hostState[e] # NoState}
      IN  /\ \A e \in ids \ present :
                e \notin parsed.normal /\ e \notin Keys(parsed.of_group)
          /\ parsed.normal \cap Keys(parsed.of_group) = {}
          /\ parsed.normal \cup Keys(parsed.of_group) = present
          /\ \A p \in parsed.of_group :
                /\ p[1] \in LightGroups
                /\ p[2] = hostMembers[p[1]]
                /\ \A q \in parsed.of_group : q[1] = p[1] => q = p

\* a LIGHT_SYNC relationship was set up from a list with an absent light and a
\* present group of two members: the coordinator holds the group's members
\* and watches none of the absent ids
C20_Witness ==
    /\ lastCall.op = "setup_entry"
    /\ lastCall.outcome = "listening"
    /\ KindOf(lastCall.name) = FUNC_NAME_LIGHT_SYNC
    /\ \E e \in Range(entries[lastCall.name].data.light_sync_entity_ids) : hostState[e] = NoState
    /\ \E g \in Range(entries[lastCall.name].data.light_sync_entity_ids) \cap LightGroups :
          /\ hostState[g] # NoState
          /\ hostMembers[g] = {"light.l2", "light.l3"}
    /\ objs[lastCall.name].lights_of_group = ResolvedNow(lastCall.name).lights_of_group
    /\ objs[lastCall.name].listened_entity_ids = ResolvedNow(lastCall.name).watched
    /\ objs[lastCall.name].lights_of_group # {}

\* C21 (conflict checker scope): a set-up that failed on a conflict names a
\* relationship of another name and the same kind whose coordinator is
\* registered in the manager at that moment; a relationship never conflicts
\* with itself, nor with one that was torn down.
C21_ConflictCheckerScope ==
    ( /\ lastCall.op = "setup_entry"
      /\ lastCall.outcome = "setup_failed"
      /\ entries[lastCall.name].reason = REASON_IN_OTHER_ENTRIES )
    => LET other == entries[lastCall.name].placeholders.existing_config_entry_id
       IN  /\ other \in Names \ {lastCall.name}
           /\ KindOf(other) = KindOf(lastCall.name)
           /\ coordinators[other]

\* C22 (watched set matches subscription): the watched set of every
\* coordinator registered in the manager is the set of entity ids of its
\* live subscriptions; it is empty when the coordinator holds none.
C22_WatchedMatchesSubscription ==
    \A n \in Names :
      coordinators[n] =>
        objs[n].listened_entity_ids = UNION {h.ids : h \in LiveSubscriptions(Store, n)}

\* a step in which a LIGHT_SYNC coordinator dropped a notification on the
\* suppression check
DroppedBySuppression ==
    /\ lastCall'.op = "notify"
    /\ lastCall'.outcome = "suppressed"
    /\ KindOf(lastCall'.name) = FUNC_NAME_LIGHT_SYNC
    /\ now' = now
    /\ hostState' = hostState
    /\ hostMembers' = hostMembers

\* C23 as stated (bounded suppression lifetime): a LIGHT_SYNC notification
\* is never dropped by the suppression check later than 3 seconds after its
\* entity was added to the fan-out set, whatever was processed in between.
C23_BoundedSuppressionLifetime ==
    [][DroppedBySuppression
       => now <= objs[lastCall'.name].fanned_out_since + QuiescenceSeconds]_vars

\* C23 amended: a LIGHT_SYNC notification is never dropped by the
\* suppression check later than 3 seconds after the last processed
\* notification of the coordinator; the drop issues no command and leaves
\* the fan-out set and the time of the last update as they were.
C23_BoundedSinceLastProcessed ==
    [][DroppedBySuppression
       => /\ now <= objs[lastCall'.name].last_update_timestamp + QuiescenceSeconds
          /\ lastCall'.entity_id \in objs[lastCall'.name].fanned_out_entity_ids
          /\ cmds' = <<>>
          /\ objs' = objs]_vars

\* a notification was dropped more than 3 seconds after its entity entered
\* the fan-out set, the source having been processed again in between
C23_Witness ==
    /\ lastCall.op = "notify"
    /\ lastCall.outcome = "suppressed"
    /\ KindOf(lastCall.name) = FUNC_NAME_LIGHT_SYNC
    /\ objs[lastCall.name].fanned_out_since < objs[lastCall.name].last_update_timestamp
    /\ now > objs[lastCall.name].fanned_out_since + QuiescenceSeconds
    /\ now <= objs[lastCall.name].last_update_timestamp + QuiescenceSeconds

\* C24 (false suppression is preserved): in a LIGHT_SYNC coordinator a
\* notification that carries on or off (it has an old state and is not a
\* membership-change signal) for an entity of the fan-out set, arriving 3
\* seconds or less after the last processed notification, is dropped
\* whichever of the two values it carries (so also the one that was not
\* propagated): no command is issued, the fan-out set and the time of the
\* last update stay.
C24_FalseSuppression ==
    [][( /\ lastCall'.op = "notify"
         /\ now' = now /\ hostState' = hostState /\ hostMembers' = hostMembers
         /\ KindOf(lastCall'.name) = FUNC_NAME_LIGHT_SYNC
         /\ lastCall'.outcome \notin {"no_old_state", "no_new_state", "refresh",
                                      "ignored_state"}
         /\ lastCall'.entity_id \in objs[lastCall'.name].fanned_out_entity_ids
         /\ objs[lastCall'.name].last_update_timestamp # 0
         /\ now - objs[lastCall'.name].last_update_timestamp <= QuiescenceSeconds )
       => /\ cmds' = <<>>
          /\ lastCall'.outcome = "suppressed"
          /\ objs'[lastCall'.name].fanned_out_entity_ids
                = objs[lastCall'.name].fanned_out_entity_ids
          /\ objs'[lastCall'.name].last_update_timestamp
                = objs[lastCall'.name].last_update_timestamp]_vars

\* a notification of a suppressed entity was dropped inside the window, the
\* fan-out set and the time of the last update being those of the propagation
C24_Witness ==
    /\ lastCall.op = "notify"
    /\ lastCall.outcome = "suppressed"
    /\ lastCall.gap = "within"
    /\ KindOf(lastCall.name) = FUNC_NAME_LIGHT_SYNC
    /\ lastCall.entity_id \in objs[lastCall.name].fanned_out_entity_ids
    /\ lastCall.entity_id # objs[lastCall.name].last_source
    /\ objs[lastCall.name].last_update_timestamp # 0
    /\ cmds = <<>>

\* ------------------------------------------------------------------------
\* Specification: two relationships that watch a common light, their
\* notifications interleaved
\* ------------------------------------------------------------------------
PairScenarios ==
    {[A |-> SyncData(<<"light.l1", "light.g1">>),
      B |-> SwitchBindData(<<"light.l1">>, <<"switch.s1">>, FALSE)],
     [A |-> SyncData(<<"light.l1", "light.g1">>),
      B |-> SyncData(<<"light.l3">>)]}

InitPair ==
    /\ InitHost
    /\ call = NoSetterCall
    /\ \E sc \in PairScenarios :
          entries = [n \in Names |-> NewEntry(TRUE, sc[n])]

NextPair ==
    \/ SetupAny
    \/ \E n \in Names : UnloadEntry(n)
    \/ NotifyAny
    \/ HostRegroups

SpecPair == InitPair /\ [][NextPair]_vars

\* C25 (coordinator independence): handling a notification in one
\* coordinator leaves the fan-out set, the time of the last update, the
\* watched set, the group membership, the subscriptions, the registration
\* and the entry of every other coordinator unchanged.
C25_CoordinatorIndependence ==
    [][( /\ lastCall'.op = "notify"
         /\ hostMembers' = hostMembers )
       => \A n \in Names \ {lastCall'.name} :
            /\ objs'[n] = objs[n]
            /\ LiveSubscriptions([subs |-> subs'], n) = LiveSubscriptions(Store, n)
            /\ coordinators'[n] = coordinators[n]
            /\ entries'[n] = entries[n]]_vars

\* a notification of a light both relationships watch was processed by one
\* of them while the other was listening with entities in its fan-out set
C25_Witness ==
    \E n \in Names \ {lastCall.name} :
        /\ lastCall.op = "notify"
        /\ lastCall.outcome = "processed"
        /\ lastCall.entity_id \in objs[n].listened_entity_ids
        /\ LiveSubscriptions(Store, n) # {}
        /\ LiveSubscriptions(Store, lastCall.name) # {}
        /\ objs[n].fanned_out_entity_ids # {}
        /\ objs[n].fanned_out_entity_ids # objs[lastCall.name].fanned_out_entity_ids

\* whether a set-up of the relationship, in the host as it is, finds its
\* entities free (kinds other than LIGHT_SYNC have no such condition)
SetupWouldSucceed(n) ==
    \/ KindOf(n) # FUNC_NAME_LIGHT_SYNC
    \/ /\ entries[n].data.light_sync_entity_ids # <<>>
       /\ OverlapNow(n).existing = {}

\* C26 (single subscription): a coordinator never holds more than one live
\* subscription, and the one it holds is that of the object registered
\* under its name; after a set-up or a membership refresh it holds exactly
\* one iff that set-up succeeded, after a teardown none, and any other
\* notification leaves the number as it was.
C26_SingleSubscription ==
    /\ [](\A n \in Names :
            /\ Cardinality(LiveSubscriptions(Store, n)) <= 1
            /\ \A h \in LiveSubscriptions(Store, n) :
                  /\ ~h.stale
                  /\ coordinators[n]
                  /\ objs[n].unsub_callbacks = <<h.token>>
            /\ (lastCall.op = "unload_entry" /\ lastCall.name = n)
                  => LiveSubscriptions(Store, n) = {})
    /\ [][( /\ lastCall'.op \in {"setup_entry", "notify"}
            /\ hostMembers' = hostMembers )
          => LET n == lastCall'.name
             IN  IF lastCall'.outcome = "unknown_kind"
                 THEN LiveSubscriptions([subs |-> subs'], n) = LiveSubscriptions(Store, n)
                 ELSE IF lastCall'.op = "setup_entry" \/ lastCall'.outcome = "refresh"
                 THEN Cardinality(LiveSubscriptions([subs |-> subs'], n))
                        = IF SetupWouldSucceed(n) THEN 1 ELSE 0
                 ELSE LiveSubscriptions([subs |-> subs'], n) = LiveSubscriptions(Store, n)]_vars

\* a membership refresh replaced the subscription of a LIGHT_SYNC
\* coordinator by one to the new members, and it is the only one
C26_Witness ==
    /\ lastCall.op = "notify"
    /\ lastCall.outcome = "refresh"
    /\ Cardinality(LiveSubscriptions(Store, lastCall.name)) = 1
    /\ \A h \in LiveSubscriptions(Store, lastCall.name) :
          h.ids = {"light.l1", "light.g1", "light.l2", "light.l3"}
    /\ \E n \in Names \ {lastCall.name} : LiveSubscriptions(Store, n) # {}

\* ------------------------------------------------------------------------
\* Specification: a membership refresh in two steps; handle_event awaits
\* async_unload and then async_setup (coordinator.py 262-263), and the
\* manager may tear the relationship down or replace it in between
\* ------------------------------------------------------------------------
SuspendScenarios ==
    {[A |-> NewEntry(TRUE, SyncData(<<"light.l1", "light.g1">>)),
      B |-> NewEntry(TRUE, SyncData(<<"light.l3">>))],
     [A |-> NewEntry(TRUE, SyncData(<<"light.l1", "light.g1">>)),
      B |-> NewEntry(FALSE, NoData)]}

InitSuspend ==
    /\ InitHost
    /\ call = NoSetterCall
    /\ entries \in SuspendScenarios

\* the handler of a membership-change signal runs up to the end of
\* async_unload and is suspended before async_setup
RefreshSuspends ==
    \E h \in subs : \E g \in h.ids \cap LightGroups :
        /\ ~h.stale
        /\ Cardinality(subs) < MaxSubs
        /\ KindOf(h.owner) = FUNC_NAME_LIGHT_SYNC
        /\ g \in Keys(objs[h.owner].lights_of_group)
        /\ Commit(async_unload(Store, h.owner))
        /\ suspended' = suspended \cup {[owner |-> h.owner, replaced |-> FALSE]}
        /\ lastCall' = Called("notify", h.owner, "refresh_suspended", "None", g,
                              "none", FALSE)
        /\ cmds' = <<>>
        /\ UNCHANGED <<now, hostState, hostMembers, call, queue, external>>

\* async_setup on a coordinator object the manager has replaced: the object
\* is no longer objs[c], its subscription is kept as a stale one
async_setup_replaced(st, c) ==
    LET listener_result == async_list_entities_to_listen(st, c).result
    IN  IF listener_result.raised
        THEN [st EXCEPT !.raised = TRUE]
        ELSE IF ~listener_result.satisfied
        THEN [st EXCEPT
                 !.entries[c].state = ENTRY_SETUP_ERROR,
                 !.entries[c].reason = listener_result.unsatisfied_reason,
                 !.entries[c].placeholders =
                     listener_result.unsatisfied_reason_placeholders]
        ELSE [st EXCEPT !.subs = st.subs \cup {[token |-> FreeToken(st, c), owner |-> c,
                                                ids |-> listener_result.entity_ids,
                                                stale |-> TRUE]}]

\* the suspended handler goes on: async_setup of its coordinator object
RefreshResumes ==
    \E s \in suspended :
        LET st == IF s.replaced THEN async_setup_replaced(Store, s.owner)
                  ELSE async_setup(Store, s.owner)
        IN  /\ Commit(st)
            /\ suspended' = suspended \ {s}
            /\ lastCall' = Called("notify", s.owner, "refresh",
                                  IF st.raised THEN "raised" ELSE "None",
                                  NoState, "none", s.replaced)
            /\ cmds' = <<>>
            /\ UNCHANGED <<now, hostState, hostMembers, call, queue, external>>

NextSuspend ==
    \/ SetupAny
    \/ \E n \in Names : UnloadEntry(n)
    \/ RefreshSuspends
    \/ RefreshResumes
    \/ HostRegroups

SpecSuspend == InitSuspend /\ [][NextSuspend]_vars

\* C27 (no orphan subscription): every live subscription belongs to the
\* coordinator registered in the manager under its name, also when a
\* teardown or a replacement of the name happens while its handler is
\* suspended inside a membership refresh.
C27_NoOrphanSubscription ==
    \A h \in subs : ~h.stale /\ coordinators[h.owner]

\* the source of the last propagation of a LIGHT_SYNC coordinator is not in
\* its fan-out set
SourceNotSuppressed ==
    \A n \in Names :
      (KindOf(n) = FUNC_NAME_LIGHT_SYNC /\ objs[n].last_source # NoState)
      => objs[n].last_source \notin objs[n].fanned_out_entity_ids

\* C28 (source is never suppressed): in a LIGHT_SYNC coordinator the entity
\* whose notification was most recently processed is never in the fan-out
\* set, and between two clearings of the set only one entity acts as the
\* source: a notification processed without a clearing is from the source
\* of the previous one.
C28_SourceNeverSuppressed ==
    /\ []SourceNotSuppressed
    /\ [][( /\ lastCall'.op = "notify"
            /\ lastCall'.outcome = "processed"
            /\ lastCall'.gap = "within"
            /\ KindOf(lastCall'.name) = FUNC_NAME_LIGHT_SYNC
            /\ now' = now /\ hostState' = hostState /\ hostMembers' = hostMembers )
          => lastCall'.entity_id = objs[lastCall'.name].last_source]_vars

\* ------------------------------------------------------------------------
\* The host's side of a command: the state of the target changes, a light
\* group passes the command on to its members and is on when a member is
\* on, and every entity whose state changed sends a notification
\* ------------------------------------------------------------------------
\* the state of the groups follows that of their members
HostGroupsFollow(hs) ==
    [e \in Entities |->
       IF e \in LightGroups /\ hs[e] # NoState /\ hostMembers[e] # {}
       THEN IF \E m \in hostMembers[e] : hs[m] = STATE_ON THEN STATE_ON ELSE STATE_OFF
       ELSE hs[e]]

\* the registry after entity_id is set to state (an unknown entity: no change)
HostApplyState(hs, entity_id, state) ==
    IF hs[entity_id] = NoState THEN hs
    ELSE IF entity_id \in LightGroups /\ hostMembers[entity_id] # {}
    THEN HostGroupsFollow([e \in Entities |->
             IF e \in hostMembers[entity_id] /\ hs[e] # NoState THEN state ELSE hs[e]])
    ELSE HostGroupsFollow([hs EXCEPT ![entity_id] = state])

\* the registry after the service calls that succeeded, in their order
RECURSIVE HostApplyCalls(_, _)
HostApplyCalls(hs, calls) ==
    IF calls = <<>> THEN hs
    ELSE HostApplyCalls(
             IF Head(calls).ok
             THEN HostApplyState(hs, Head(calls).entity_id,
                                 IF Head(calls).service = "turn_on" THEN STATE_ON
                                 ELSE STATE_OFF)
             ELSE hs,
             Tail(calls))

\* the notifications of the entities whose state differs between two
\* registries (the host notifies on an actual change only)
HostNotifications(hs, hs2) ==
    LET changed == SetToSeq({e \in Entities : hs[e] # hs2[e]})
    IN  [i \in 1 .. Len(changed) |->
           [entity_id |-> changed[i], old_state |-> hs[changed[i]],
            new_state |-> hs2[changed[i]]]]

\* a device or a user changes the state of an entity a relationship watches
ExternalChange(entity_id, state) ==
    /\ Len(external) < MaxExternal
    /\ \E h \in subs : ~h.stale /\ entity_id \in h.ids
    /\ hostState[entity_id] \notin {NoState, state}
    /\ LET hs2 == HostApplyState(hostState, entity_id, state)
       IN  /\ hostState' = hs2
           /\ queue' = queue \o HostNotifications(hostState, hs2)
    /\ external' = Append(external, [entity_id |-> entity_id, state |-> state])
    /\ UNCHANGED <<now, hostMembers, subs, entries, coordinators, objs, cmds,
                   lastCall, call, suspended>>

\* the host delivers the oldest notification in flight to the subscription
\* that tracks its entity; the commands of the handler take effect
DeliverNext ==
    /\ queue # <<>>
    /\ \/ /\ ~\E h \in subs : ~h.stale /\ Head(queue).entity_id \in h.ids
          /\ queue' = Tail(queue)
          /\ UNCHANGED <<hostState, subs, entries, coordinators, objs, cmds, lastCall>>
       \/ \E h \in subs :
            /\ ~h.stale
            /\ Head(queue).entity_id \in h.ids
            /\ \E event \in {Notification(Head(queue).entity_id, Head(queue).old_state,
                                           Head(queue).new_state,
                                           IF Head(queue).new_state = STATE_ON
                                           THEN AttributesOn ELSE {},
                                           now)} :
               \E done \in {handle_event(Store, h.owner, event, {})} :
               \E hs2 \in {HostApplyCalls(hostState, done.cmds)} :
                  /\ Commit(done.st)
                  /\ cmds' = done.cmds
                  /\ lastCall' = Called("notify", h.owner, done.outcome,
                                        IF done.st.raised THEN "raised" ELSE "None",
                                        event.entity_id, GapOf(objs[h.owner], event),
                                        FALSE)
                  /\ hostState' = hs2
                  /\ queue' = Tail(queue) \o HostNotifications(hostState, hs2)
    /\ UNCHANGED <<now, hostMembers, call, suspended, external>>

\* the relationship is set up once
SetupOnce ==
    \E n \in Names :
        /\ ~coordinators[n]
        /\ SetupEntry(n, entries[n].data.func_name)

\* ------------------------------------------------------------------------
\* Specification: one LIGHT_SYNC relationship, one external change and the
\* echoes of the commands it causes
\* ------------------------------------------------------------------------
ConvergeDefinitions ==
    {SyncData(<<"light.l1", "light.g1">>),
     SyncData(<<"light.l1", "light.l3">>),
     SyncData(<<"light.l1", "light.l2", "light.l3">>)}

InitConverge ==
    /\ InitHost
    /\ call = NoSetterCall
    /\ \E d \in ConvergeDefinitions :
          entries = [n \in Names |-> IF n = "A" THEN NewEntry(TRUE, d)
                                     ELSE NewEntry(FALSE, NoData)]

\* the lights are on or off before the relationship is set up
HostPrepares ==
    /\ \A n \in Names : ~coordinators[n]
    /\ \E e \in Lights, state \in {STATE_ON, STATE_OFF} :
          /\ hostState[e] # state
          /\ hostState' = HostApplyState(hostState, e, state)
    /\ UNCHANGED <<now, hostMembers, subs, entries, coordinators, objs, cmds,
                   lastCall, call, suspended, queue, external>>

ExternalChangeOnce ==
    /\ external = <<>>
    /\ \E entity_id \in Lights \cup LightGroups, state \in {STATE_ON, STATE_OFF} :
          ExternalChange(entity_id, state)

NextConverge ==
    \/ HostPrepares
    \/ SetupOnce
    \/ ExternalChangeOnce
    \/ DeliverNext
    \/ Tick

SpecConverge == InitConverge /\ [][NextConverge]_vars

\* every notification in flight is delivered in the end
SpecConvergeFair == SpecConverge /\ WF_vars(DeliverNext)

\* the configured entities the host knows hold the value of the external
\* change and no notification is in flight
Converged ==
    /\ external # <<>>
    /\ queue = <<>>
    /\ \A n \in Names :
          (coordinators[n] /\ KindOf(n) = FUNC_NAME_LIGHT_SYNC)
          => \A e \in Range(entries[n].data.light_sync_entity_ids) :
                hostState[e] \in {NoState, external[1].state}

\* C29 (LIGHT_SYNC convergence): after a single external on/off change of a
\* watched entity of a listening LIGHT_SYNC coordinator, with every command
\* succeeding and every echo delivered, eventually every configured entity
\* has the new value and no notification is in flight, for ever: no further
\* command is issued.
C29_LightSyncConvergence ==
    (external # <<>>) ~> []Converged

\* the echoes of a propagation were all dropped and the relationship is at
\* rest with every configured entity at the new value
C29_Witness ==
    /\ Converged
    /\ lastCall.op = "notify"
    /\ lastCall.outcome = "suppressed"
    /\ \E n \in Names :
          /\ objs[n].last_source = external[1].entity_id
          /\ objs[n].fanned_out_entity_ids # {}

\* ------------------------------------------------------------------------
\* Specification: one SWITCH_BIND relationship of a light and a switch, a
\* few external changes and the echoes of the commands they cause
\* ------------------------------------------------------------------------
EchoDefinitions ==
    {SwitchBindData(<<"light.l1">>, <<"switch.s1">>, FALSE)}

InitEcho ==
    /\ InitHost
    /\ call = NoSetterCall
    /\ \E d \in EchoDefinitions :
          entries = [n \in Names |-> IF n = "A" THEN NewEntry(TRUE, d)
                                     ELSE NewEntry(FALSE, NoData)]

\* a bound light or switch is changed from outside, MaxExternal times at most
ExternalChangeBound ==
    \E n \in Names :
        /\ coordinators[n]
        /\ \E entity_id \in Range(entries[n].data.light_entity_ids)
                            \cup Range(entries[n].data.switch_entity_ids),
              state \in {STATE_ON, STATE_OFF} :
              ExternalChange(entity_id, state)

NextEcho ==
    \/ HostPrepares
    \/ SetupOnce
    \/ ExternalChangeBound
    \/ DeliverNext
    \/ Tick

SpecEcho == InitEcho /\ [][NextEcho]_vars

\* every notification in flight is delivered in the end
SpecEchoFair == SpecEcho /\ WF_vars(DeliverNext)

\* no notification is in flight and the bound lights and switches the host
\* knows hold one value
EchoQuiet ==
    /\ queue = <<>>
    /\ \A n \in Names :
          (coordinators[n] /\ KindOf(n) = FUNC_NAME_LIGHT_SWITCH_BIND)
          => \A e1, e2 \in Range(entries[n].data.light_entity_ids)
                           \cup Range(entries[n].data.switch_entity_ids) :
                \/ hostState[e1] = NoState
                \/ hostState[e2] = NoState
                \/ hostState[e1] = hostState[e2]

\* C30 (SWITCH_BIND echo termination): for a non-wireless SWITCH_BIND
\* relationship, once bound switches or lights were changed from outside
\* finitely often (two opposite changes of one switch before the echoes of
\* the first included), the echoes cause finitely many commands: eventually
\* no notification is in flight, no command is issued and all bound lights
\* and switches hold the same value, for ever.
C30_SwitchBindEchoTermination ==
    (external # <<>>) ~> []EchoQuiet
====
